---- MODULE Spec2Model ----
(***************************************************************************)
(* pyblish_qml.host: installation into a host, lifecycle of the GUI        *)
(* process handle, and registration of the callbacks that bridge the GUI   *)
(* back into the host.                                                     *)
(*                                                                         *)
(* The Python functions are operators from a state record to a state       *)
(* record; an exception that escapes a function is the record's "raised"   *)
(* field.  Each action is one call made by the host (or one event of a GUI *)
(* process) and applies the whole call.                                    *)
(***************************************************************************)
EXTENDS Integers, Sequences, FiniteSets, TLC

\* Number of GUI launches (show() calls that get past the existing server).
MaxLaunch == 2
\* Number of times _on_application_quit may be connected to the host's exit.
MaxConnect == 2

VARIABLES
    installed,        \* _state["installed"]
    currentServer,    \* _state["currentServer"]; NoServer when the key is absent
    dispatchWrapper,  \* _state["dispatchWrapper"]; NoWrapper when the key is absent
    registered,       \* pyblish.api's callbacks: signal -> list of callbacks
    popen,            \* the process of each launched server
    launches,         \* how many times show() went on to launch a GUI
    splash,           \* the splash widget of each launch
    ContextLabel,     \* settings.ContextLabel
    WindowTitle,      \* settings.WindowTitle
    publish,          \* instance.data["publish"] of each instance
    active,           \* plugin.active of each plugin
    quitConnections,  \* connections of _on_application_quit to the host's exit
    exited,           \* the host application has quit
    env,              \* what the host process can import, its arguments, its Qt
    tried,            \* the installers the last install_host() called, in order
    configured,       \* the installer the last install_host() completed
    ret,              \* return value of the last call (a server, or NoServer for None)
    raised,           \* exception the last call let escape, or "none"
    traceback,        \* the last call printed a traceback
    lastOp,           \* the last call or event
    args              \* its arguments, and what its collaborators did

vars == <<installed, currentServer, dispatchWrapper, registered, popen, launches,
          splash, ContextLabel, WindowTitle, publish, active, quitConnections,
          exited, env, tried, configured, ret, raised, traceback, lastOp, args>>

-----------------------------------------------------------------------------
\* Values

NoServer == 0
Launches == 1..MaxLaunch

NoWrapper == [name |-> "None", args |-> 0, varargs |-> FALSE, keywords |-> FALSE]

\* inspect.getargspec of the wrappers a caller may pass: the number of named
\* positional parameters, and whether *args and **kwargs are present.
Wrappers ==
    [name : {"u1", "u2"}, args : 0..2, varargs : BOOLEAN, keywords : BOOLEAN]

threaded_wrapper(h) ==
    [name |-> h, args |-> 1, varargs |-> TRUE, keywords |-> TRUE]

Modules == {"maya", "hdefereval", "nuke", "hiero", "bpy"}
RawArgs == {"--hiero", "--studio"}
Qt == {"none", "noapp", "app"}

Instances == {"i1", "i2"}
Plugins == {"p1", "p2"}

Callback(fn, id) == [fn |-> fn, id |-> id]

Live == {"starting", "running"}

Raise(s, e) == [s EXCEPT !.raised = e]

Range(f) == {f[x] : x \in DOMAIN f}

-----------------------------------------------------------------------------
\* pyblish.api callbacks, as host.py uses them

register_callback(s, signal, callback) ==
    IF signal \in DOMAIN s.registered
    THEN [s EXCEPT !.registered[signal] = Append(@, callback)]
    ELSE [s EXCEPT !.registered = @ @@ (signal :> <<callback>>)]

\* list.remove: the first occurrence
Remove(list, x) ==
    LET i == CHOOSE j \in 1..Len(list) :
                 list[j] = x /\ \A h \in 1..(j - 1) : list[h] # x
    IN  [j \in 1..(Len(list) - 1) |-> IF j < i THEN list[j] ELSE list[j + 1]]

deregister_callback(s, signal, callback) ==
    IF signal \notin DOMAIN s.registered THEN Raise(s, "KeyError")
    ELSE IF callback \notin Range(s.registered[signal]) THEN Raise(s, "ValueError")
    ELSE [s EXCEPT !.registered[signal] = Remove(@, callback)]

Count(s, signal, callback) ==
    IF signal \notin DOMAIN s.registered THEN 0
    ELSE Cardinality({j \in 1..Len(s.registered[signal]) :
                          s.registered[signal][j] = callback})

-----------------------------------------------------------------------------
\* Dispatch wrapper

register_dispatch_wrapper_unchecked(s, wrapper) ==
    [s EXCEPT !.dispatchWrapper = wrapper]

register_dispatch_wrapper(s, wrapper) ==
    IF \/ wrapper.args # 1
       \/ ~wrapper.varargs
       \/ ~wrapper.keywords
    THEN Raise(s, "TypeError")
    ELSE [s EXCEPT !.dispatchWrapper = wrapper]

deregister_dispatch_wrapper(s) ==
    IF s.dispatchWrapper = NoWrapper THEN Raise(s, "KeyError")
    ELSE [s EXCEPT !.dispatchWrapper = NoWrapper]

dispatch_wrapper(s) == s.dispatchWrapper

current_server(s) == s.currentServer

-----------------------------------------------------------------------------
\* Toggle callbacks

_toggle_instance_old(s, instance, new_value, old_value) ==
    [s EXCEPT !.publish[instance] = old_value]

_toggle_instance(s, instance, new_value, old_value) ==
    [s EXCEPT !.publish[instance] = new_value]

_toggle_plugin(s, plugin, new_value, old_value) ==
    [s EXCEPT !.active[plugin] = new_value]

install_callbacks(s) ==
    register_callback(
        register_callback(s, "instanceToggled", Callback("_toggle_instance", 0)),
        "pluginToggled", Callback("_toggle_plugin", 0))

uninstall_callbacks(s) ==
    LET s1 == deregister_callback(s, "instanceToggled", Callback("_toggle_instance", 0))
    IN  IF s1.raised # "none" THEN s1
        ELSE deregister_callback(s1, "pluginToggled", Callback("_toggle_plugin", 0))

-----------------------------------------------------------------------------
\* Hosts

_connect_application_quit(s) ==
    IF s.env.qt = "none" THEN s
    ELSE [s EXCEPT !.quitConnections = @ + 1]

Configure(s, h, wrapped, label) ==
    LET s1 == IF wrapped THEN register_dispatch_wrapper(s, threaded_wrapper(h)) ELSE s
    IN  IF s1.raised # "none" THEN s1
        ELSE [_connect_application_quit(s1) EXCEPT
                  !.ContextLabel = label,
                  !.WindowTitle = "Pyblish (" \o label \o ")",
                  !.configured = h]

_install_maya(s) ==
    IF "maya" \notin s.env.modules THEN Raise(s, "ImportError")
    ELSE Configure(s, "maya", TRUE, "Maya")

_install_houdini(s) ==
    IF "hdefereval" \notin s.env.modules THEN Raise(s, "ImportError")
    ELSE Configure(s, "houdini", TRUE, "Houdini")

_install_nuke_anyargs(s) ==
    IF "nuke" \notin s.env.modules THEN Raise(s, "ImportError")
    ELSE Configure(s, "nuke", TRUE, "Nuke")

_install_nuke(s) ==
    IF "nuke" \notin s.env.modules THEN Raise(s, "ImportError")
    ELSE IF "--hiero" \in s.env.rawArgs \/ "--studio" \in s.env.rawArgs
    THEN Raise(s, "ImportError")
    ELSE Configure(s, "nuke", TRUE, "Nuke")

_install_hiero(s) ==
    IF "hiero" \notin s.env.modules THEN Raise(s, "ImportError")
    ELSE IF "nuke" \notin s.env.modules THEN Raise(s, "ImportError")
    ELSE IF "--hiero" \notin s.env.rawArgs THEN Raise(s, "ImportError")
    ELSE Configure(s, "hiero", TRUE, "Hiero")

_install_blender(s) ==
    IF "bpy" \notin s.env.modules THEN Raise(s, "ImportError")
    ELSE Configure(s, "blender", FALSE, "Blender")

Installers == <<"maya", "houdini", "nuke", "hiero", "blender">>

RunInstaller(name, s) ==
    CASE name = "maya" -> _install_maya(s)
      [] name = "houdini" -> _install_houdini(s)
      [] name = "nuke" -> _install_nuke(s)
      [] name = "hiero" -> _install_hiero(s)
      [] name = "blender" -> _install_blender(s)

RECURSIVE install_host_nobreak(_, _)
install_host_nobreak(s, i) ==
    IF i > Len(Installers) THEN s
    ELSE LET s0 == [s EXCEPT !.tried = Append(@, Installers[i])]
             r == RunInstaller(Installers[i], s0)
         IN  IF r.raised = "ImportError" THEN install_host_nobreak(s0, i + 1)
             ELSE IF r.raised # "none" THEN r
             ELSE install_host_nobreak(r, i + 1)

\* The loop of install_host from its i-th installer on.
RECURSIVE install_host_from(_, _)
install_host_from(s, i) ==
    IF i > Len(Installers) THEN s
    ELSE LET s0 == [s EXCEPT !.tried = Append(@, Installers[i])]
             r == RunInstaller(Installers[i], s0)
         IN  IF r.raised = "ImportError" THEN install_host_from(s0, i + 1)
             ELSE r

install_host(s) ==
    install_host_from([s EXCEPT !.tried = <<>>, !.configured = "none"], 1)

-----------------------------------------------------------------------------
\* install, uninstall

uninstall(s) == uninstall_callbacks(s)

install(s) ==
    LET s0 == IF s.installed THEN uninstall(s) ELSE s
    IN  IF s0.raised # "none" THEN s0
        ELSE LET s1 == install_host(install_callbacks(s0))
             IN  IF s1.raised # "none" THEN s1
                 ELSE [s1 EXCEPT !.installed = TRUE]

-----------------------------------------------------------------------------
\* show

_show_splash(s, k) ==
    IF s.env.qt = "app" THEN [s EXCEPT !.splash[k] = "open"] ELSE s

\* The closure on_shown of the k-th launch: splash.close() on a splash that
\* is missing or already closed raises AttributeError or RuntimeError,
\* which is swallowed.
on_shown(s, k) ==
    LET s1 == IF s.splash[k] = "open" THEN [s EXCEPT !.splash[k] = "closed"] ELSE s
    IN  deregister_callback(s1, "pyblishQmlShown", Callback("on_shown", k))

show_launch_unrecorded(s, launch) ==
    LET k == s.launches + 1
        s1 == _show_splash([s EXCEPT !.launches = k], k)
        s2 == register_callback(s1, "pyblishQmlShown", Callback("on_shown", k))
    IN  IF launch = "ctor_fail"
        THEN [on_shown([s2 EXCEPT !.traceback = TRUE], k) EXCEPT !.ret = NoServer]
        ELSE IF launch = "IOError"
        THEN Raise([s2 EXCEPT !.popen[k] = "dead"], "IOError")
        ELSE IF launch = "Error"
        THEN Raise([s2 EXCEPT !.popen[k] = "starting"], "Error")
        ELSE [s2 EXCEPT !.popen[k] = "starting", !.ret = k]

show_launch_propagate(s, launch) ==
    LET k == s.launches + 1
        s1 == _show_splash([s EXCEPT !.launches = k], k)
        s2 == register_callback(s1, "pyblishQmlShown", Callback("on_shown", k))
    IN  IF launch = "ctor_fail"
        THEN Raise(s2, "Error")
        ELSE IF launch = "IOError"
        THEN Raise([s2 EXCEPT !.popen[k] = "dead"], "IOError")
        ELSE IF launch = "Error"
        THEN Raise([s2 EXCEPT !.popen[k] = "starting"], "Error")
        ELSE [s2 EXCEPT !.popen[k] = "starting", !.currentServer = k, !.ret = k]

\* Lines 107-138 of show(): the launch of a new GUI.  launch is what the
\* collaborators do: "ctor_fail" when Service() or Server() raises, "IOError"
\* when the process is gone by the time proxy.show() writes to it, "Error"
\* when line 130 raises anything else while the process runs, "ok" otherwise.
show_launch(s, launch) ==
    LET k == s.launches + 1
        s1 == _show_splash([s EXCEPT !.launches = k], k)
        s2 == register_callback(s1, "pyblishQmlShown", Callback("on_shown", k))
    IN  IF launch = "ctor_fail"
        THEN [on_shown([s2 EXCEPT !.traceback = TRUE], k) EXCEPT !.ret = NoServer]
        ELSE IF launch = "IOError"
        THEN Raise([s2 EXCEPT !.popen[k] = "dead"], "IOError")
        ELSE IF launch = "Error"
        THEN Raise([s2 EXCEPT !.popen[k] = "starting"], "Error")
        ELSE [s2 EXCEPT !.popen[k] = "starting", !.currentServer = k, !.ret = k]

show_existing_keep(s, reuse, launch) ==
    IF reuse = "ok" THEN [s EXCEPT !.ret = s.currentServer]
    ELSE IF reuse = "Error" THEN Raise(s, "Error")
    ELSE show_launch(s, launch)

show_existing_relaunch(s, reuse, launch) ==
    IF reuse = "Error" THEN Raise(s, "Error")
    ELSE show_launch([s EXCEPT !.currentServer = NoServer], launch)

\* Lines 94-105 of show(): the existing GUI.  reuse is what proxy.show()
\* does: "ok", "IOError" when the process has been closed, "Error" when the
\* line raises anything else.
show_existing(s, reuse, launch) ==
    IF reuse = "ok" THEN [s EXCEPT !.ret = s.currentServer]
    ELSE IF reuse = "Error" THEN Raise(s, "Error")
    ELSE show_launch([s EXCEPT !.currentServer = NoServer], launch)

show(s, reuse, launch) ==
    LET s0 == IF ~s.installed THEN install(s) ELSE s
    IN  IF s0.raised # "none" THEN s0
        ELSE IF s0.currentServer # NoServer THEN show_existing(s0, reuse, launch)
        ELSE show_launch(s0, launch)

-----------------------------------------------------------------------------
\* pyblish.api.emit: each registered callback in list order, by index into
\* the list itself; an exception of a callback is printed, not raised.

call(s, callback, kwargs) ==
    CASE callback.fn = "_toggle_instance" ->
             _toggle_instance(s, kwargs.target, kwargs.new_value, kwargs.old_value)
      [] callback.fn = "_toggle_plugin" ->
             _toggle_plugin(s, kwargs.target, kwargs.new_value, kwargs.old_value)
      [] callback.fn = "on_shown" -> on_shown(s, callback.id)

RECURSIVE emit_from(_, _, _, _)
emit_from(s, signal, kwargs, i) ==
    IF signal \notin DOMAIN s.registered THEN s
    ELSE IF i > Len(s.registered[signal]) THEN s
    ELSE emit_from([call(s, s.registered[signal][i], kwargs) EXCEPT !.raised = "none"],
                   signal, kwargs, i + 1)

emit(s, signal, kwargs) == emit_from(s, signal, kwargs, 1)

-----------------------------------------------------------------------------
\* Host exit

\* _state["currentServer"].popen.kill()
kill(s) ==
    IF s.currentServer = NoServer THEN Raise(s, "KeyError")
    ELSE IF s.popen[s.currentServer] \notin Live THEN Raise(s, "OSError")
    ELSE [s EXCEPT !.popen[s.currentServer] = "dead"]

_on_application_quit_oserror(s) ==
    LET r == kill(s)
    IN  IF r.raised \in {"KeyError"} THEN [r EXCEPT !.raised = "none"] ELSE r

_on_application_quit(s) ==
    LET r == kill(s)
    IN  IF r.raised \in {"KeyError", "OSError"} THEN [r EXCEPT !.raised = "none"] ELSE r

\* The host runs every connection of the handler; one that raises does not
\* stop the others, and the first exception is kept.
RECURSIVE RunQuitHandlers(_, _)
RunQuitHandlers(s, n) ==
    IF n = 0 THEN s
    ELSE LET r == _on_application_quit([s EXCEPT !.raised = "none"])
         IN  RunQuitHandlers([r EXCEPT !.raised = IF s.raised # "none" THEN s.raised ELSE @],
                             n - 1)

-----------------------------------------------------------------------------
\* The state machine

Cur ==
    [installed |-> installed, currentServer |-> currentServer,
     dispatchWrapper |-> dispatchWrapper, registered |-> registered,
     popen |-> popen, launches |-> launches, splash |-> splash,
     ContextLabel |-> ContextLabel, WindowTitle |-> WindowTitle,
     publish |-> publish, active |-> active,
     quitConnections |-> quitConnections, exited |-> exited, env |-> env,
     tried |-> tried, configured |-> configured,
     ret |-> NoServer, raised |-> "none", traceback |-> FALSE, lastOp |-> lastOp]

Apply(s, op, a) ==
    /\ s.quitConnections <= MaxConnect
    /\ installed' = s.installed
    /\ currentServer' = s.currentServer
    /\ dispatchWrapper' = s.dispatchWrapper
    /\ registered' = s.registered
    /\ popen' = s.popen
    /\ launches' = s.launches
    /\ splash' = s.splash
    /\ ContextLabel' = s.ContextLabel
    /\ WindowTitle' = s.WindowTitle
    /\ publish' = s.publish
    /\ active' = s.active
    /\ quitConnections' = s.quitConnections
    /\ exited' = s.exited
    /\ env' = s.env
    /\ tried' = s.tried
    /\ configured' = s.configured
    /\ ret' = s.ret
    /\ raised' = s.raised
    /\ traceback' = s.traceback
    /\ lastOp' = op
    /\ args' = a

NoArgs == [kind |-> "none"]

\* nuke.rawArgs exists only where nuke can be imported.
Envs ==
    {e \in [modules : SUBSET Modules, rawArgs : SUBSET RawArgs, qt : Qt] :
        "nuke" \notin e.modules => e.rawArgs = {}}

Init ==
    /\ installed = FALSE
    /\ currentServer = NoServer
    /\ dispatchWrapper = NoWrapper
    /\ registered = [signal \in {} |-> <<>>]
    /\ popen = [k \in Launches |-> "none"]
    /\ launches = 0
    /\ splash = [k \in Launches |-> "none"]
    /\ ContextLabel = "Context"
    /\ WindowTitle = "Pyblish"
    /\ publish = [i \in Instances |-> TRUE]
    /\ active = [p \in Plugins |-> TRUE]
    /\ quitConnections = 0
    /\ exited = FALSE
    /\ env \in Envs
    /\ tried = <<>>
    /\ configured = "none"
    /\ ret = NoServer
    /\ raised = "none"
    /\ traceback = FALSE
    /\ lastOp = "init"
    /\ args = NoArgs

Install ==
    /\ ~exited
    /\ Apply(install(Cur), "install", NoArgs)

Uninstall ==
    /\ ~exited
    /\ Apply(uninstall(Cur), "uninstall", NoArgs)

\* What proxy.show() can do with the current server's process.
Reuse(s) ==
    IF s.currentServer = NoServer THEN {"ok"}
    ELSE IF s.popen[s.currentServer] \in Live THEN {"ok", "Error"}
    ELSE {"IOError"}

Show ==
    /\ ~exited
    /\ \E reuse \in Reuse(Cur), launch \in {"ok", "ctor_fail", "IOError", "Error"} :
           /\ (currentServer = NoServer \/ reuse = "IOError") => launches < MaxLaunch
           /\ Apply(show(Cur, reuse, launch), "show",
                    [reuse |-> IF currentServer = NoServer THEN "none" ELSE reuse,
                     launch |-> IF currentServer = NoServer \/ reuse = "IOError"
                                THEN launch ELSE "none"])

\* The GUI of server k has shown its window: it emits pyblishQmlShown.
Shown ==
    /\ ~exited
    /\ \E k \in Launches :
           /\ popen[k] = "starting"
           /\ Apply(emit([Cur EXCEPT !.popen[k] = "running"], "pyblishQmlShown", NoArgs),
                    "shown", [server |-> k])

\* The GUI process of server k ends (the user closes it, or it crashes).
ProcessExit ==
    /\ ~exited
    /\ \E k \in Launches :
           /\ popen[k] \in Live
           /\ Apply([Cur EXCEPT !.popen[k] = "dead"], "process_exit", [server |-> k])

\* The host application quits and runs the connected handlers.
HostExit ==
    /\ ~exited
    /\ Apply([RunQuitHandlers(Cur, quitConnections) EXCEPT !.exited = TRUE], "quit", NoArgs)

ToggleInstance ==
    /\ ~exited
    /\ \E i \in Instances, new_value \in BOOLEAN, old_value \in BOOLEAN :
           LET a == [target |-> i, new_value |-> new_value, old_value |-> old_value]
           IN  Apply(emit(Cur, "instanceToggled", a), "instanceToggled", a)

TogglePlugin ==
    /\ ~exited
    /\ \E p \in Plugins, new_value \in BOOLEAN, old_value \in BOOLEAN :
           LET a == [target |-> p, new_value |-> new_value, old_value |-> old_value]
           IN  Apply(emit(Cur, "pluginToggled", a), "pluginToggled", a)

RegisterDispatchWrapper ==
    /\ ~exited
    /\ \E wrapper \in Wrappers :
           Apply(register_dispatch_wrapper(Cur, wrapper), "register_dispatch_wrapper",
                 [wrapper |-> wrapper])

DeregisterDispatchWrapper ==
    /\ ~exited
    /\ Apply(deregister_dispatch_wrapper(Cur), "deregister_dispatch_wrapper", NoArgs)

Next ==
    \/ Install
    \/ Uninstall
    \/ Show
    \/ Shown
    \/ ProcessExit
    \/ HostExit

Spec == Init /\ [][Next]_vars

NextToggle ==
    \/ Install
    \/ Uninstall
    \/ ToggleInstance
    \/ TogglePlugin

SpecToggle == Init /\ [][NextToggle]_vars

NextHost ==
    \/ Install
    \/ Uninstall
    \/ RegisterDispatchWrapper
    \/ DeregisterDispatchWrapper

SpecHost == Init /\ [][NextHost]_vars

-----------------------------------------------------------------------------
\* Properties

ToggleInstanceCb == Callback("_toggle_instance", 0)
TogglePluginCb == Callback("_toggle_plugin", 0)

TogglesRegistered ==
    /\ Count(Cur, "instanceToggled", ToggleInstanceCb) >= 1
    /\ Count(Cur, "pluginToggled", TogglePluginCb) >= 1

\* What a toggle event may not touch.
ToggleFrame ==
    UNCHANGED <<installed, currentServer, dispatchWrapper, registered, popen, launches,
                splash, ContextLabel, WindowTitle, quitConnections, exited, env,
                tried, configured>>

\* C1: the state holds at most one server reference, always a server that
\* show() constructed; and a show() made while currentServer is set and its
\* proxy.show() succeeds returns that server, keeps it as currentServer, and
\* constructs no new server and spawns no process.
C1_ShowReusesServer ==
    [][/\ currentServer' \in {NoServer} \cup {k \in Launches : popen'[k] # "none"}
       /\ (/\ lastOp' = "show"
           /\ currentServer # NoServer
           /\ args'.reuse = "ok")
          => /\ raised' = "none"
             /\ ret' = currentServer
             /\ currentServer' = currentServer
             /\ launches' = launches
             /\ popen' = popen
             /\ registered' = registered]_vars

\* C1 witness: show() has returned the server whose GUI was already running.
C1_Witness ==
    /\ lastOp = "show"
    /\ args.reuse = "ok"
    /\ ret # NoServer
    /\ ret = currentServer
    /\ popen[ret] = "running"

\* C2: whenever show() returns, the installed flag is true and the
\* instanceToggled and pluginToggled callbacks are registered.
C2_ShowInstalls ==
    (lastOp = "show" /\ raised = "none") => (installed /\ TogglesRegistered)

\* C3: while the toggle callbacks are registered, an instanceToggled event
\* sets the publish flag of its instance to new_value and a pluginToggled
\* event sets the active flag of its plugin to new_value, and nothing else
\* changes; with no callback registered, and so right after uninstall(), a
\* toggle event changes nothing.
C3_ToggleBridged ==
    [][/\ lastOp' = "instanceToggled"
          => /\ publish' = IF Count(Cur, "instanceToggled", ToggleInstanceCb) >= 1
                           THEN [publish EXCEPT ![args'.target] = args'.new_value]
                           ELSE publish
             /\ active' = active
             /\ ToggleFrame
       /\ lastOp' = "pluginToggled"
          => /\ active' = IF Count(Cur, "pluginToggled", TogglePluginCb) >= 1
                          THEN [active EXCEPT ![args'.target] = args'.new_value]
                          ELSE active
             /\ publish' = publish
             /\ ToggleFrame
       /\ (lastOp = "uninstall" /\ lastOp' \in {"instanceToggled", "pluginToggled"})
          => /\ publish' = publish
             /\ active' = active]_vars

\* C3 witness: a registered callback has set an instance to a new_value that
\* differs from the old_value given and from the flag of the other instance.
C3_Witness ==
    /\ lastOp = "instanceToggled"
    /\ Count(Cur, "instanceToggled", ToggleInstanceCb) = 1
    /\ args.new_value = FALSE
    /\ args.old_value = TRUE
    /\ publish[args.target] = FALSE
    /\ \E i \in Instances : publish[i]

\* C4: when the host quits and runs the connected handlers, however many
\* times the handler was connected, no exception escapes, and a stored
\* currentServer's process is dead afterwards while no other process and no
\* state entry is touched.
C4_QuitKillsServer ==
    [][(lastOp' = "quit" /\ quitConnections >= 1)
       => /\ raised' = "none"
          /\ currentServer' = currentServer
          /\ popen' = IF currentServer = NoServer THEN popen
                      ELSE [popen EXCEPT ![currentServer] = "dead"]]_vars

\* C4 witness: the handler, connected twice, has run on a stored server.
C4_Witness ==
    /\ lastOp = "quit"
    /\ quitConnections = 2
    /\ currentServer # NoServer
    /\ popen[currentServer] = "dead"

\* C5: register_dispatch_wrapper stores a wrapper with exactly one named
\* positional parameter, *args and **kwargs, which dispatch_wrapper() then
\* returns; for any other wrapper it raises TypeError and leaves the
\* registered wrapper, or its absence, as it was.
C5_WrapperSignature ==
    [][lastOp' = "register_dispatch_wrapper"
       => LET w == args'.wrapper
          IN  IF w.args = 1 /\ w.varargs /\ w.keywords
              THEN raised' = "none" /\ dispatch_wrapper(Cur)' = w
              ELSE raised' = "TypeError" /\ dispatchWrapper' = dispatchWrapper]_vars

\* C5 witness: a mismatching wrapper was refused while another one stays
\* registered.
C5_Witness ==
    /\ lastOp = "register_dispatch_wrapper"
    /\ raised = "TypeError"
    /\ args.wrapper.args = 1
    /\ dispatchWrapper # NoWrapper
    /\ dispatchWrapper.name # args.wrapper.name

RaisesImportError(name) == RunInstaller(name, Cur).raised = "ImportError"

AllRaiseImportError == \A j \in 1..Len(Installers) : RaisesImportError(Installers[j])

\* C6: an install() that gets to install_host() calls the installers in the
\* order Maya, Houdini, Nuke, Hiero, Blender up to and including the first
\* that does not raise ImportError, and configures that host alone; when all
\* of them raise ImportError it still completes with the installed flag set
\* and the dispatch wrapper as it was.
C6_HostDetection ==
    [][(lastOp' = "install" /\ (installed => TogglesRegistered))
       => /\ raised' = "none"
          /\ installed'
          /\ \E n \in 0..Len(Installers) : tried' = SubSeq(Installers, 1, n)
          /\ \A j \in 1..(Len(tried') - 1) : RaisesImportError(tried'[j])
          /\ IF AllRaiseImportError
             THEN /\ tried' = Installers
                  /\ configured' = "none"
                  /\ dispatchWrapper' = dispatchWrapper
                  /\ quitConnections' = quitConnections
                  /\ ContextLabel' = ContextLabel
                  /\ WindowTitle' = WindowTitle
             ELSE /\ configured' = tried'[Len(tried')]
                  /\ ~RaisesImportError(configured')
                  /\ dispatchWrapper' = IF configured' = "blender" THEN dispatchWrapper
                                        ELSE threaded_wrapper(configured')
                  /\ quitConnections' = quitConnections + IF env.qt = "none" THEN 0 ELSE 1]_vars

\* C6 witness: install() has completed where every installer raised
\* ImportError, and a wrapper registered before is still there.
C6_Witness ==
    /\ lastOp = "install"
    /\ raised = "none"
    /\ installed
    /\ tried = Installers
    /\ configured = "none"
    /\ dispatchWrapper # NoWrapper

\* C7: when Service() or Server() raises inside show(), show() raises
\* nothing and returns None after printing the traceback; the splash of
\* this call is not left open, the on_shown callback of this call is not
\* left registered, no process exists for it, and currentServer is unset.
C7_LaunchFailure ==
    [][(lastOp' = "show" /\ args'.launch = "ctor_fail")
       => /\ raised' = "none"
          /\ traceback'
          /\ ret' = NoServer
          /\ currentServer' = NoServer
          /\ launches' = launches + 1
          /\ splash'[launches'] = (IF env.qt = "app" THEN "closed" ELSE "none")
          /\ (IF "pyblishQmlShown" \in DOMAIN registered' THEN registered'["pyblishQmlShown"] ELSE <<>>)
               = (IF "pyblishQmlShown" \in DOMAIN registered THEN registered["pyblishQmlShown"] ELSE <<>>)
          /\ popen' = popen]_vars

\* C7 witness: a launch has failed and its splash was closed.
C7_Witness ==
    /\ lastOp = "show"
    /\ args.launch = "ctor_fail"
    /\ traceback
    /\ ret = NoServer
    /\ currentServer = NoServer
    /\ splash[launches] = "closed"

\* C8: after uninstall() neither toggle callback is registered, and after
\* install(), however many install() calls came right before it, each
\* toggle callback is registered exactly once.
C8_InstallIdempotent ==
    /\ lastOp = "uninstall"
       => /\ Count(Cur, "instanceToggled", ToggleInstanceCb) = 0
          /\ Count(Cur, "pluginToggled", TogglePluginCb) = 0
    /\ lastOp = "install"
       => /\ Count(Cur, "instanceToggled", ToggleInstanceCb) = 1
          /\ Count(Cur, "pluginToggled", TogglePluginCb) = 1

\* C9: when show() finds a currentServer whose proxy.show() raises IOError,
\* it launches a new server in the same call; currentServer is never the
\* stale server afterwards: it is the new server, which show() returns,
\* when the launch succeeds, and unset when the launch fails.
C9_StaleServerReplaced ==
    [][(lastOp' = "show" /\ currentServer # NoServer /\ args'.reuse = "IOError")
       => /\ launches' = launches + 1
          /\ currentServer' # currentServer
          /\ IF args'.launch = "ok"
             THEN /\ raised' = "none"
                  /\ currentServer' = launches'
                  /\ ret' = launches'
                  /\ popen'[launches'] \in Live
             ELSE currentServer' = NoServer]_vars

\* C9 witness: the first server is dead and show() has returned a second one.
C9_Witness ==
    /\ lastOp = "show"
    /\ args.reuse = "IOError"
    /\ args.launch = "ok"
    /\ popen[1] = "dead"
    /\ currentServer = 2
    /\ ret = 2

\* C10: every live process that show() launched is the one currentServer
\* refers to.
C10_LiveProcessRecorded ==
    \A k \in Launches : popen[k] \in Live => currentServer = k

\* C11: the installed flag is true exactly when the instanceToggled and
\* pluginToggled callbacks are registered.
C11_InstalledIffRegistered ==
    installed <=> TogglesRegistered

OnShownRegistered ==
    IF "pyblishQmlShown" \in DOMAIN registered THEN registered["pyblishQmlShown"] ELSE <<>>

\* C12: once no launched GUI is still to emit pyblishQmlShown (each has
\* emitted it, or failed to launch), no on_shown callback is registered.
C12_OnShownOneShot ==
    (\A k \in Launches : popen[k] # "starting") => OnShownRegistered = <<>>

\* C13: in no environment do the Nuke and the Hiero installer both succeed;
\* where nuke and hiero import and install_host() gets to the Nuke installer,
\* "--hiero" makes the Nuke installer raise ImportError and the Hiero
\* installer configure the host, and neither "--hiero" nor "--studio" makes
\* the Nuke installer configure it with the Hiero installer never called;
\* the dispatch wrapper, window title and context label are those of the
\* installer that configured the host.
C13_NukeHieroExclusive ==
    [][/\ RaisesImportError("nuke") \/ RaisesImportError("hiero")
       /\ (/\ lastOp' = "install"
           /\ installed => TogglesRegistered
           /\ {"nuke", "hiero"} \subseteq env.modules
           /\ env.modules \cap {"maya", "hdefereval"} = {})
          => /\ "--hiero" \in env.rawArgs
                => /\ RaisesImportError("nuke")
                   /\ tried' = SubSeq(Installers, 1, 4)
                   /\ configured' = "hiero"
             /\ env.rawArgs = {}
                => /\ tried' = SubSeq(Installers, 1, 3)
                   /\ configured' = "nuke"
             /\ configured' = "nuke"
                => /\ dispatchWrapper' = threaded_wrapper("nuke")
                   /\ ContextLabel' = "Nuke"
                   /\ WindowTitle' = "Pyblish (Nuke)"
             /\ configured' = "hiero"
                => /\ dispatchWrapper' = threaded_wrapper("hiero")
                   /\ ContextLabel' = "Hiero"
                   /\ WindowTitle' = "Pyblish (Hiero)"]_vars

\* C13 witness: with "--hiero" given, install() has configured Hiero after
\* the Nuke installer was called.
C13_Witness ==
    /\ lastOp = "install"
    /\ raised = "none"
    /\ "--hiero" \in env.rawArgs
    /\ tried = SubSeq(Installers, 1, 4)
    /\ configured = "hiero"
    /\ WindowTitle = "Pyblish (Hiero)"
    /\ dispatchWrapper = threaded_wrapper("hiero")

\* C14: current_server() is None at first; only a show() changes it; a
\* show() that returns a server leaves current_server() equal to the server
\* it returned, and a show() that changes it otherwise leaves it None.
C14_CurrentServer ==
    /\ current_server(Cur) = NoServer
    /\ [][/\ (lastOp' = "show" /\ raised' = "none" /\ ret' # NoServer)
             => current_server(Cur)' = ret'
          /\ lastOp' # "show" => current_server(Cur)' = current_server(Cur)
          /\ current_server(Cur)' \notin {current_server(Cur), NoServer}
             => (lastOp' = "show" /\ raised' = "none" /\ ret' = current_server(Cur)')]_vars

\* C14 witness: after a later uninstall() the server that a show()
\* launched and returned is still the current server.
C14_Witness ==
    /\ lastOp = "uninstall"
    /\ raised = "none"
    /\ current_server(Cur) # NoServer
    /\ popen[current_server(Cur)] \in Live

====
